---- MODULE Spec2Model ----
(***************************************************************************)
(* Model of keybase_chat.py: the ChatScreen session (seen_ids,             *)
(* last_poll_timestamp, message_list), its background listen_messages task *)
(* and the on_input_submitted handler, over the screen stack of the app.   *)
(*                                                                         *)
(* Scheduling.  The program is one asyncio event loop: code between two    *)
(* awaits is one atomic step.  listen_messages is an asyncio task of its   *)
(* own.  on_mount and on_input_submitted are message handlers of one       *)
(* screen, which the screen's message pump runs one at a time; a key       *)
(* binding (escape, q) reaches its action through the same queue, so it is *)
(* taken only when no handler of the screen is suspended.  on_mount of a    *)
(* screen runs once, when the screen is pushed; the screen below a popped  *)
(* screen becomes active again without it.  After shutdown() the app       *)
(* handles no further event.                                               *)
(*                                                                         *)
(* Time.  now is the clock read by datetime.now: it does not run backwards, *)
(* and it has moved on when a subprocess returns.                          *)
(*                                                                         *)
(* Text.  A line printed by the backend is a sequence of one-character     *)
(* strings; the fixed texts of the program are kept as one piece.          *)
(***************************************************************************)
EXTENDS Integers, Sequences, FiniteSets, TLC

\* ---- bounds of the model ----
\* ChatScreen objects a run may construct
MaxSessions == 2
\* Spec: screens opened + inputs submitted + polls returned + lines printed
NavBudget == 4
\* SpecMerge: lines printed; polls returned + inputs submitted
MergeLines == 3
MergeEvents == 3
\* SpecCursor: lines printed; polls returned; inputs submitted
CursorLines == 1
CursorPolls == 3
CursorInputs == 2
\* SpecList: conversations the backend lists; largest max_recent
MaxConvs == 3
MaxRecent == 2
\* SpecCommands: inputs submitted; polls returned
CommandInputs == 1
CommandPolls == 1
\* SpecBackend: messages the backend records; polls returned
BackendMsgs == 2
BackendPolls == 2

Sessions == 1..MaxSessions

\* ---- text ----
Digits == {"0", "1", "2", "3", "4", "5", "6", "7", "8", "9"}

NoId == <<>>

RECURSIVE DigitRun(_, _)
\* the longest run of digits of line starting at position i  (\d+)
DigitRun(line, i) ==
    IF i <= Len(line) /\ line[i] \in Digits
    THEN <<line[i]>> \o DigitRun(line, i + 1)
    ELSE <<>>

\* re.match(r"\[(\d+)\]", line): group(1), or NoId when there is no match
MsgId(line) ==
    IF Len(line) >= 3 /\ line[1] = "["
    THEN LET d == DigitRun(line, 2)
         IN IF d # <<>> /\ Len(line) >= Len(d) + 2 /\ line[Len(d) + 2] = "]"
            THEN d ELSE NoId
    ELSE NoId

\* what the backend may print for a conversation, one line each
L1 == <<"[", "1", "]", "h", "i">>
L2 == <<"[", "2", "]", "y", "o">>
L10 == <<"[", "1", "0", "]">>
LC == <<"C", "o", "n", "[", "1", "]">>
Lines == {L1, L2, L10, LC}

RECURSIVE SeqsUpTo(_, _)
SeqsUpTo(S, n) ==
    IF n = 0 THEN {<<>>}
    ELSE LET shorter == SeqsUpTo(S, n - 1)
         IN shorter \cup {Append(q, x) : q \in {p \in shorter : Len(p) = n - 1}, x \in S}



\* ---- text of user input (str.strip, str.split(maxsplit=1), str.lower) ----
IsSpace(c) == c = " "

RECURSIVE LStrip(_)
LStrip(t) == IF t # <<>> /\ IsSpace(Head(t)) THEN LStrip(Tail(t)) ELSE t

RECURSIVE RStrip(_)
RStrip(t) ==
    IF t # <<>> /\ IsSpace(t[Len(t)]) THEN RStrip(SubSeq(t, 1, Len(t) - 1)) ELSE t

\* a strip of the left end only
StripLeft(t) == LStrip(t)

\* message.value.strip()
Strip(t) == LStrip(RStrip(t))

RECURSIVE FirstWord(_)
FirstWord(t) ==
    IF t = <<>> \/ IsSpace(Head(t)) THEN <<>> ELSE <<Head(t)>> \o FirstWord(Tail(t))

\* parts[1] of user_input.split(maxsplit=1), "" when there is no second part
RestAfterWord(t) == LStrip(SubSeq(t, Len(FirstWord(t)) + 1, Len(t)))

UpperLetters ==
    <<"A", "B", "C", "D", "E", "F", "G", "H", "I", "J", "K", "L", "M",
      "N", "O", "P", "Q", "R", "S", "T", "U", "V", "W", "X", "Y", "Z">>
LowerLetters ==
    <<"a", "b", "c", "d", "e", "f", "g", "h", "i", "j", "k", "l", "m",
      "n", "o", "p", "q", "r", "s", "t", "u", "v", "w", "x", "y", "z">>

LowerChar(c) ==
    IF \E i \in 1..26 : UpperLetters[i] = c
    THEN LowerLetters[CHOOSE i \in 1..26 : UpperLetters[i] = c]
    ELSE c

Lower(t) == [i \in 1..Len(t) |-> LowerChar(t[i])]

StartsWithSlash(t) == t # <<>> /\ t[1] = "/"

CmdHelp == <<"/", "h", "e", "l", "p">>
CmdQuit == <<"/", "q", "u", "i", "t">>
CmdCc == <<"/", "c", "c">>
CmdAf == <<"/", "a", "f">>
CmdDf == <<"/", "d", "f">>

\* what the user may type into the input box
UserInputs ==
    { <<"h", "i">>,
      <<" ", "y", "o", " ">>,
      CmdHelp,
      CmdQuit,
      <<"/", "C", "C">>,
      <<"/", "c", "c", " ", "B">>,
      CmdAf,
      <<"/", "a", "f", " ", "f">>,
      CmdDf,
      <<"/", "d", "f", " ", "7">>,
      <<"/", "x">> }

\* one input for each branch of on_input_submitted that calls the backend or
\* leaves the screen; /af f with no such file is a branch that only appends
NavInputs ==
    { <<"h", "i">>,
      CmdQuit,
      <<"/", "c", "c", " ", "B">>,
      <<"/", "a", "f", " ", "f">>,
      <<"/", "d", "f", " ", "7">> }

\* ---- inline texts ----
\* get_help_text()
HelpText == <<"Commands: /help /cc /af /df /quit">>
UsageAf == <<"Usage: /af <file_path>">>
UsageDf == <<"Usage: /df <file_identifier>">>
UnknownCommand == <<"Unknown command. Type /help for help.">>
Switching(arg) == <<"Switching to conversation: ">> \o arg
NotExist(path) == <<"File '">> \o path \o <<"' does not exist.">>
AttachOk == <<"File attached successfully.">>
\* stderr.decode().strip() of a failed subprocess
Stderr == <<"e", "r", "r">>
AttachError == <<"Error attaching file: ">> \o Stderr
DownloadError == <<"Error downloading file: ">> \o Stderr
ReadError == <<"Error reading previous messages: ">> \o Stderr
\* config.get("download_path", ".")
download_path == <<".", "/", "d", "l">>
\* os.path.join(download_dir, file_identifier)
OsPathJoin(dir, name) ==
    IF name # <<>> /\ name[1] = "/" THEN name ELSE dir \o <<"/">> \o name
Downloaded(out_file) ==
    <<"File downloaded successfully to ">> \o out_file \o <<".">>

\* return codes of a subprocess: 0, or not 0
ReturnCodes == {0, 1}

\* ---- conversations ----
\* None of Python
None == "None"

\* a conversation of the backend's list: its id, active_at and channel
Conv(id, active_at, members_type, name, topic_name) ==
    [id |-> id, active_at |-> active_at, members_type |-> members_type,
     name |-> name, topic_name |-> topic_name]

ConvA == Conv("A", 5, "impteamnative", <<"a", "l", ",", " ", "b", "o">>, <<>>)
ConvB == Conv("B", 1, "impteamnative",
              <<"C", "h", "a", "t", "B", "o", "t", " ", "T", "e", "a", "m">>, <<>>)
ConvC == Conv("C", 9, "team", <<"C", "h", "a", "t", "r", "o", "o", "m">>, <<"g">>)
ConvD == Conv("D", 5, "impteamnative", <<"a", "l">>, <<>>)

\* what keybase chat api -m list answers in a run of the whole program
BackendConvs == <<ConvA, ConvB>>

\* ids of the conversations listed on the selection screen
Convs == {"A", "B"}

\* what keybase whoami may print
WhoamiOutputs == {<<"a", "l">>, <<>>}

\* DEFAULT_CONFIG, the keys the selection screen reads
DEFAULT_CONFIG == [max_recent |-> 0, hide_names |-> <<>>]

RECURSIVE SplitComma(_)
\* names.split(",")
SplitComma(t) ==
    IF \A i \in 1..Len(t) : t[i] # ","
    THEN <<t>>
    ELSE LET i == CHOOSE k \in 1..Len(t) : t[k] = "," /\ \A j \in 1..(k - 1) : t[j] # ","
         IN <<SubSeq(t, 1, i - 1)>> \o SplitComma(SubSeq(t, i + 1, Len(t)))

RECURSIVE JoinComma(_)
\* ",".join(filtered)
JoinComma(list) ==
    IF list = <<>> THEN <<>>
    ELSE IF Len(list) = 1 THEN list[1]
    ELSE list[1] \o <<",">> \o JoinComma(Tail(list))

RECURSIVE Without(_, _)
\* [n for n in names_list if n != current_user]
Without(list, current_user) ==
    IF list = <<>> THEN <<>>
    ELSE IF Head(list) # current_user
         THEN <<Head(list)>> \o Without(Tail(list), current_user)
         ELSE Without(Tail(list), current_user)

conversation_display_name(conv, current_user) ==
    IF conv.members_type = "team"
    THEN <<"T", "e", "a", "m", ":", " ">> \o conv.name
         \o <<" ", "(", "T", "o", "p", "i", "c", ":", " ">> \o conv.topic_name \o <<")">>
    ELSE LET split == SplitComma(conv.name)
             names_list == [i \in 1..Len(split) |-> Strip(split[i])]
             filtered == Without(names_list, current_user)
         IN JoinComma(IF filtered = <<>> THEN names_list ELSE filtered)

\* h in name, for strings
Contains(h, name) ==
    \E i \in 0..(Len(name) - Len(h)) : SubSeq(name, i + 1, i + Len(h)) = h

\* a hide test that compares the characters as they are written
HiddenCaseSensitive(name, hide_names) ==
    \E k \in 1..Len(hide_names) : Contains(hide_names[k], name)

\* any(h.lower() in name.lower() for h in self.config.get("hide_names", []))
Hidden(name, hide_names) ==
    \E k \in 1..Len(hide_names) : Contains(Lower(hide_names[k]), Lower(name))

\* sorted(), one more element c put into a list that is sorted already:
\* behind the elements that do not come after it (the sort is stable)
InsertDesc(c, sorted) ==
    LET later == {i \in 1..Len(sorted) : sorted[i].active_at < c.active_at}
        at == IF later = {} THEN Len(sorted) + 1
              ELSE CHOOSE i \in later : \A j \in later : i <= j
    IN SubSeq(sorted, 1, at - 1) \o <<c>> \o SubSeq(sorted, at, Len(sorted))

RECURSIVE SortedByActiveAt(_)
\* sorted(self.conversations, key=lambda c: c.get("active_at", 0), reverse=True)
SortedByActiveAt(convs) ==
    IF convs = <<>> THEN <<>>
    ELSE InsertDesc(convs[Len(convs)], SortedByActiveAt(SubSeq(convs, 1, Len(convs) - 1)))

\* [:max_recent] when max_recent > 0
MostRecent(sorted, max_recent) ==
    IF max_recent > 0
    THEN SubSeq(sorted, 1, IF max_recent < Len(sorted) THEN max_recent ELSE Len(sorted))
    ELSE sorted

RECURSIVE ListItems(_, _, _)
\* the ListItems of on_mount: id and name of the conversations not hidden
ListItems(convs, user, hide_names) ==
    IF convs = <<>> THEN <<>>
    ELSE LET name == conversation_display_name(Head(convs), user)
             rest == ListItems(Tail(convs), user, hide_names)
         IN IF Hidden(name, hide_names) THEN rest
            ELSE <<[id |-> Head(convs).id, name |-> name]>> \o rest


\* ---- state ----
VARIABLES
    now,                  \* datetime.datetime.now(datetime.timezone.utc)
    exited,               \* the application has exited
    screen_stack,         \* 0 is the ConversationSelectionScreen, s > 0 a ChatScreen
    chats,                \* number of ChatScreen objects constructed so far
    conversation,         \* ChatScreen.conversation (its id), per ChatScreen
    running,              \* ChatScreen.running
    seen_ids,             \* ChatScreen.seen_ids
    last_poll_timestamp,  \* ChatScreen.last_poll_timestamp
    message_list,         \* ChatScreen.message_list: the items, in order
    listen_task,          \* ChatScreen.listen_task: the listen_messages task
    handler,              \* the message handler that is running
    inputs,               \* number of inputs submitted so far
    current_user,         \* KeybaseChatApp.current_user
    config,               \* KeybaseChatApp.config
    conversations,        \* ConversationSelectionScreen.conversations
    list_view,            \* ConversationSelectionScreen.list_view: the items
    listing,              \* the conversations the backend lists
    backend,              \* the messages the backend has recorded, with their times
    answer,               \* what the backend has answered to the read of the listen task
    calls,                \* history: number of backend calls the handlers issued, per kind
    failures,             \* history: number of failed send, upload and download calls
    last_input,           \* history: the input submitted last
    delivered,            \* history: number of reads that returned lines, per ChatScreen
    idless_fetched,       \* history: number of fetched lines without identifier
    failed_since,         \* history: the --since values of the failed polls
    printed               \* history: number of lines the backend has printed

vars == <<now, exited, screen_stack, chats, conversation, running, seen_ids,
          last_poll_timestamp, message_list, listen_task, handler, inputs,
          current_user, config, conversations, list_view, listing, backend, answer,
          calls, failures, last_input,
          delivered, idless_fetched, failed_since, printed>>

history == <<delivered, idless_fetched, failed_since, printed>>

\* the state of the app and of the selection screen
selection == <<current_user, config, conversations, list_view>>

\* the backend
world == <<listing, backend, answer>>

\* the log of calls and inputs
log == <<calls, failures, last_input>>

\* one more call of a kind is issued
Call(kind) == calls' = [calls EXCEPT ![kind] = @ + 1]

\* a call of a kind has returned rc
Returned(kind, rc) == failures' = [failures EXCEPT ![kind] = IF rc # 0 THEN @ + 1 ELSE @]

\* the answer of the backend to the read started at time started
Answer(started, out) == [started |-> started, out |-> out]

\* a coroutine running poll_iteration or a handler: where it is suspended,
\* the --since argument and start time of its read, the lines still to be
\* looked at, and the number of the batch they came in
Idle(pc) == [pc |-> pc, since |-> 0, started |-> 0, buf |-> <<>>, batch |-> 0, arg |-> <<>>]

\* an item of a message list: the text, and where it came from
\* (0: the initial load, k > 0: the k-th batch polled, -1: an inline text)
Item(line, batch) == [line |-> line, batch |-> batch]
Inline(text) == Item(text, -1)

\* the screen that receives input
ActiveScreen == IF exited \/ screen_stack = <<>> THEN -1 ELSE screen_stack[Len(screen_stack)]

\* the ChatScreen s is on the screen stack (its widgets are mounted)
Mounted(s) == ~exited /\ \E i \in 1..Len(screen_stack) : screen_stack[i] = s

\* the app is constructed and run: on_load has read the configuration cfg
\* and awaits get_current_user; the backend lists the conversations convs
InitWith(cfg, convs) ==
    /\ now = 0
    /\ exited = FALSE
    /\ screen_stack = <<>>
    /\ chats = 0
    /\ current_user = None
    /\ config = cfg
    /\ conversations = <<>>
    /\ list_view = <<>>
    /\ listing = convs
    /\ backend = {}
    /\ answer = [s \in Sessions |-> Answer(-1, <<>>)]
    /\ calls = [whoami |-> 1, list |-> 0, read |-> 0, oob |-> 0,
                send |-> 0, upload |-> 0, download |-> 0]
    /\ failures = [send |-> 0, upload |-> 0, download |-> 0]
    /\ last_input = [value |-> <<>>, exists |-> FALSE]
    /\ conversation = [s \in Sessions |-> "none"]
    /\ running = [s \in Sessions |-> FALSE]
    /\ seen_ids = [s \in Sessions |-> {}]
    /\ last_poll_timestamp = [s \in Sessions |-> 0]
    /\ message_list = [s \in Sessions |-> <<>>]
    /\ listen_task = [s \in Sessions |-> Idle("none")]
    /\ handler = Idle("load")
    /\ inputs = 0
    /\ delivered = [s \in Sessions |-> 0]
    /\ idless_fetched = [s \in Sessions |-> 0]
    /\ failed_since = [s \in Sessions |-> {}]
    /\ printed = 0

Init == InitWith(DEFAULT_CONFIG, BackendConvs)

\* ---- KeybaseChatApp ----

\* on_load goes on after the check of current_user whatever it is
NeverShutdown(user) == FALSE

\* on_load: `if not self.current_user`, then self.shutdown()
OnLoadShutdown(user) == user = None \/ user = <<>>

\* get_current_user returns rc and out (keybase whoami).  After shutdown()
\* the app handles no further event; otherwise on_mount pushes the
\* ConversationSelectionScreen, whose on_mount runs up to the await of
\* list_conversations
WhoamiReturn(rc, out) ==
    /\ ~exited
    /\ handler.pc = "load"
    /\ LET user == IF rc # 0 THEN None ELSE Strip(out) IN
        /\ current_user' = user
        /\ IF OnLoadShutdown(user)
           THEN /\ exited' = TRUE
                /\ handler' = Idle("idle")
                /\ UNCHANGED <<screen_stack, calls>>
           ELSE /\ screen_stack' = Append(screen_stack, 0)
                /\ handler' = Idle("list")
                /\ Call("list")
                /\ UNCHANGED exited
    /\ UNCHANGED <<now, chats, conversation, running, seen_ids, last_poll_timestamp,
                   message_list, listen_task, inputs, config, conversations,
                   list_view, world, failures, last_input, history>>

\* ---- ConversationSelectionScreen ----

\* on_mount: list_conversations returns rc and out (keybase chat api -m list);
\* an error gives the empty list
ListReturn(rc, out) ==
    /\ ActiveScreen = 0
    /\ handler.pc = "list"
    /\ LET listed == IF rc # 0 THEN <<>> ELSE out
           shown == MostRecent(SortedByActiveAt(listed), config.max_recent)
       IN /\ conversations' = shown
          /\ list_view' = ListItems(shown, current_user, config.hide_names)
    /\ handler' = Idle("idle")
    /\ UNCHANGED <<now, exited, screen_stack, chats, conversation, running, seen_ids,
                   last_poll_timestamp, message_list, listen_task, inputs,
                   current_user, config, world, log, history>>

\* a seen_ids set shared by all ChatScreen objects
SharedSeenIds == UNION {seen_ids[s] : s \in Sessions}

\* ChatScreen.__init__: self.seen_ids = set()
ChatScreenSeenIds == {}

\* on_list_view_selected: push ChatScreen(conv, ...); its on_mount runs up to
\* the await of read_previous_messages
Select(conv) ==
    /\ ActiveScreen = 0
    /\ handler.pc = "idle"
    /\ \E i \in 1..Len(list_view) : list_view[i].id = conv
    /\ \E i \in 1..Len(conversations) : conversations[i].id = conv
    /\ chats < MaxSessions
    /\ LET s == chats + 1 IN
        /\ chats' = s
        /\ screen_stack' = Append(screen_stack, s)
        /\ conversation' = [conversation EXCEPT ![s] = conv]
        /\ running' = [running EXCEPT ![s] = TRUE]
        /\ seen_ids' = [seen_ids EXCEPT ![s] = ChatScreenSeenIds]
        /\ last_poll_timestamp' = [last_poll_timestamp EXCEPT ![s] = now]
        /\ message_list' = [message_list EXCEPT ![s] = <<>>]
        /\ listen_task' = [listen_task EXCEPT ![s] = Idle("none")]
        /\ handler' = Idle("mount_read")
    /\ Call("read")
    /\ UNCHANGED <<now, exited, inputs, selection, world, failures, last_input, history>>

\* action_quit_app of the selection screen (key q)
QuitList ==
    /\ ActiveScreen = 0
    /\ handler.pc = "idle"
    /\ exited' = TRUE
    /\ UNCHANGED <<now, screen_stack, chats, conversation, running, seen_ids,
                   last_poll_timestamp, message_list, listen_task, handler,
                   inputs, selection, world, log, history>>


\* ---- ChatScreen.on_mount ----

NumIdless(batch) == Cardinality({i \in 1..Len(batch) : MsgId(batch[i]) = NoId})

\* the task created before the loop over prev
ListenTaskEarly(s, remaining) ==
    IF listen_task[s].pc = "none" THEN Idle("sleep") ELSE listen_task[s]

\* self.listen_task once on_mount has `remaining` lines of prev left to append:
\* the task is created after the loop; it then waits in asyncio.sleep(5)
OnMountListenTask(s, remaining) ==
    IF remaining = <<>> THEN Idle("sleep") ELSE listen_task[s]

\* a load that leaves seen_ids as it is
SeenAfterLoadUnchanged(seen, m) == seen

\* self.seen_ids after the loop over prev has looked at a line with match m
SeenAfterLoad(seen, m) == IF m # NoId THEN seen \cup {m} ELSE seen

\* the loop over prev.splitlines(), from its start or from the await of an
\* append, up to the next await of an append or to the end of on_mount
MountLoop(s, h) ==
    /\ listen_task' = [listen_task EXCEPT ![s] = OnMountListenTask(s, h.buf)]
    /\ IF h.buf = <<>>
       THEN /\ handler' = Idle("idle")
            /\ UNCHANGED <<seen_ids, message_list>>
       ELSE LET line == Head(h.buf)
                m == MsgId(line)
            IN /\ seen_ids' = [seen_ids EXCEPT ![s] = SeenAfterLoad(@, m)]
               /\ message_list' = [message_list EXCEPT ![s] = Append(@, Item(line, h.batch))]
               /\ handler' = [h EXCEPT !.pc = "mount_append", !.buf = Tail(h.buf)]

\* read_previous_messages returns (keybase chat read --at-least N)
MountRead(rc, out) ==
    /\ ActiveScreen > 0
    /\ handler.pc = "mount_read"
    /\ LET s == ActiveScreen
           h == IF rc = 0
                THEN [handler EXCEPT !.buf = out, !.batch = 0]
                ELSE [handler EXCEPT !.buf = <<ReadError>>, !.batch = -1]
       IN /\ MountLoop(s, h)
          /\ idless_fetched' = [idless_fetched EXCEPT ![s] = @ + NumIdless(out)]
          /\ printed' = printed + Len(out)
    /\ UNCHANGED <<now, exited, screen_stack, chats, conversation, running,
                   last_poll_timestamp, inputs, selection, world, log,
                   delivered, failed_since>>

\* the append of on_mount's loop has been awaited
MountAppend ==
    /\ ActiveScreen > 0
    /\ handler.pc = "mount_append"
    /\ MountLoop(ActiveScreen, handler)
    /\ UNCHANGED <<now, exited, screen_stack, chats, conversation, running,
                   last_poll_timestamp, inputs, selection, world, log, history>>

\* ---- ChatScreen.poll_iteration ----

RECURSIVE SkipLines(_, _)
\* the lines of the loop left when it reaches a line it appends: lines without
\* identifier and lines whose identifier is in seen are passed over
SkipLines(buf, seen) ==
    IF buf = <<>> THEN <<>>
    ELSE IF MsgId(Head(buf)) = NoId \/ MsgId(Head(buf)) \in seen
         THEN SkipLines(Tail(buf), seen)
         ELSE buf

\* the timestamp taken when the read was started
CursorAtStart(s, p, t, rc) == p.started

\* the timestamp stored only when the read succeeded
CursorOnSuccess(s, p, t, rc) == IF rc = 0 THEN t ELSE last_poll_timestamp[s]

\* self.last_poll_timestamp after communicate() returned rc at time t
CursorAfterPoll(s, p, t, rc) == t

\* the loop over new_lines, from its start or from the await of an append, up
\* to the next await of an append or to the return: the new seen_ids, the new
\* items, and the coroutine (pc "return" when poll_iteration is left).
\* An append to the list of a ChatScreen that is no longer mounted raises.
PollLoop(s, p) ==
    LET b == SkipLines(p.buf, seen_ids[s]) IN
    IF b = <<>>
    THEN [seen |-> seen_ids[s], list |-> message_list[s],
          p |-> [p EXCEPT !.pc = "return", !.buf = <<>>]]
    ELSE IF Mounted(s)
    THEN [seen |-> seen_ids[s] \cup {MsgId(Head(b))},
          list |-> Append(message_list[s], Item(Head(b), p.batch)),
          p |-> [p EXCEPT !.pc = "merge", !.buf = Tail(b)]]
    ELSE [seen |-> seen_ids[s] \cup {MsgId(Head(b))}, list |-> message_list[s],
          p |-> [p EXCEPT !.pc = "return", !.buf = <<>>]]

\* poll_iteration up to the await of communicate(): keybase chat read --since
PollStart(s, p) ==
    [Idle("fetch") EXCEPT !.since = last_poll_timestamp[s], !.started = now]

\* communicate() returns rc and the lines out at time now + 1; poll_iteration
\* runs on to its next await or to its return
PollReturn(s, p, rc, out) ==
    LET t == now + 1
        r == IF rc # 0
             THEN [seen |-> seen_ids[s], list |-> message_list[s],
                   p |-> [p EXCEPT !.pc = "return"]]
             ELSE PollLoop(s, [p EXCEPT !.buf = out, !.batch = delivered[s] + 1])
    IN r @@ [ts |-> CursorAfterPoll(s, p, t, rc)]


\* stdout.decode().splitlines() of a read with return code rc, when the
\* backend prints lines of L
Outputs(L, n, rc) == IF rc = 0 /\ printed < n THEN SeqsUpTo(L, n - printed) ELSE {<<>>}

\* the history kept of a poll that returned rc and out
PollHistory(s, p, rc, out) ==
    /\ delivered' = [delivered EXCEPT ![s] = IF rc = 0 THEN @ + 1 ELSE @]
    /\ idless_fetched' = [idless_fetched EXCEPT ![s] = @ + NumIdless(out)]
    /\ failed_since' = [failed_since EXCEPT ![s] = IF rc # 0 THEN @ \cup {p.since} ELSE @]
    /\ printed' = printed + Len(out)

\* ---- ChatScreen.listen_messages ----

\* a loop that ends once a poll has failed
NextCycleUntilFailure(s) ==
    IF running[s] /\ failed_since[s] = {} THEN Idle("sleep") ELSE Idle("done")

\* the task after poll_iteration returned or raised: while self.running,
\* await asyncio.sleep(5)
NextCycle(s) == IF running[s] THEN Idle("sleep") ELSE Idle("done")

\* asyncio.sleep(5) is over: poll_iteration starts its read
ListenWake(s) ==
    /\ ~exited
    /\ listen_task[s].pc = "sleep"
    /\ listen_task' = [listen_task EXCEPT ![s] = PollStart(s, @)]
    /\ UNCHANGED <<now, exited, screen_stack, chats, conversation, running, seen_ids,
                   last_poll_timestamp, message_list, handler, inputs, selection,
                   world, log, history>>

\* the read of the task's poll_iteration returns
ListenReturn(s, rc, out) ==
    /\ ~exited
    /\ listen_task[s].pc = "fetch"
    /\ LET r == PollReturn(s, listen_task[s], rc, out) IN
        /\ now' = now + 1
        /\ last_poll_timestamp' = [last_poll_timestamp EXCEPT ![s] = r.ts]
        /\ seen_ids' = [seen_ids EXCEPT ![s] = r.seen]
        /\ message_list' = [message_list EXCEPT ![s] = r.list]
        /\ listen_task' = [listen_task EXCEPT ![s] = IF r.p.pc = "return" THEN NextCycle(s) ELSE r.p]
    /\ PollHistory(s, listen_task[s], rc, out)
    /\ UNCHANGED <<exited, screen_stack, chats, conversation, running, handler, inputs,
                   selection, world, log>>

\* an append of the task's poll_iteration has been awaited
ListenMerge(s) ==
    /\ ~exited
    /\ listen_task[s].pc = "merge"
    /\ LET r == PollLoop(s, listen_task[s]) IN
        /\ seen_ids' = [seen_ids EXCEPT ![s] = r.seen]
        /\ message_list' = [message_list EXCEPT ![s] = r.list]
        /\ listen_task' = [listen_task EXCEPT ![s] = IF r.p.pc = "return" THEN NextCycle(s) ELSE r.p]
    /\ UNCHANGED <<now, exited, screen_stack, chats, conversation, running,
                   last_poll_timestamp, handler, inputs, selection, world, log, history>>

\* ---- leaving the ChatScreen ----

\* self.listen_task.cancel(), if self.listen_task
Cancel(task) == IF task.pc = "none" THEN task ELSE Idle("cancelled")

\* self.app.pop_screen()
PopScreen == screen_stack' = SubSeq(screen_stack, 1, Len(screen_stack) - 1)

\* action_pop_chat (key escape)
ActionPopChat(s) ==
    /\ running' = [running EXCEPT ![s] = FALSE]
    /\ listen_task' = [listen_task EXCEPT ![s] = Cancel(@)]
    /\ PopScreen
    /\ UNCHANGED exited

\* action_quit_app of the ChatScreen
ActionQuitApp(s) ==
    /\ running' = [running EXCEPT ![s] = FALSE]
    /\ listen_task' = [listen_task EXCEPT ![s] = Cancel(@)]
    /\ exited' = TRUE
    /\ UNCHANGED screen_stack

Escape ==
    /\ ActiveScreen > 0
    /\ handler.pc = "idle"
    /\ ActionPopChat(ActiveScreen)
    /\ UNCHANGED <<now, chats, conversation, seen_ids, last_poll_timestamp,
                   message_list, handler, inputs, selection, world, log, history>>


\* ---- ChatScreen.on_input_submitted ----

\* await self.message_list.append(ListItem(Static(text)))
Show(s, text) == message_list' = [message_list EXCEPT ![s] = Append(@, Inline(text))]

\* attach_file_cmd without the test of os.path.exists
AttachNoExistCheck(file_path, exists) == <<>>

\* attach_file_cmd before its subprocess: the text it returns when
\* os.path.exists(file_path) is false, no text otherwise
AttachLocalError(file_path, exists) ==
    IF ~exists THEN NotExist(file_path) ELSE <<>>

\* the user submits value; exists is os.path.exists of the path of an /af.
\* The handler runs to its end, or to the await of a subprocess.
Submit(value, exists) ==
    /\ ActiveScreen > 0
    /\ handler.pc = "idle"
    /\ inputs' = inputs + 1
    /\ LET s == ActiveScreen
           user_input == Strip(value)
           cmd == Lower(FirstWord(user_input))
           arg == RestAfterWord(user_input)
       IN IF StartsWithSlash(user_input)
          THEN CASE cmd = CmdHelp ->
                        /\ Show(s, HelpText)
                        /\ last_input' = [value |-> value, exists |-> FALSE]
                        /\ UNCHANGED <<handler, running, listen_task, screen_stack,
                                       exited, calls>>
                 [] cmd = CmdQuit ->
                        /\ ActionQuitApp(s)
                        /\ last_input' = [value |-> value, exists |-> FALSE]
                        /\ UNCHANGED <<handler, message_list, calls>>
                 [] cmd = CmdCc ->
                        /\ IF arg # <<>> THEN Show(s, Switching(arg))
                                         ELSE UNCHANGED message_list
                        /\ PopScreen
                        /\ last_input' = [value |-> value, exists |-> FALSE]
                        /\ UNCHANGED <<handler, running, listen_task, exited, calls>>
                 [] cmd = CmdAf ->
                        /\ IF arg = <<>>
                           THEN /\ Show(s, UsageAf)
                                /\ last_input' = [value |-> value, exists |-> FALSE]
                                /\ UNCHANGED <<handler, calls>>
                           ELSE /\ last_input' = [value |-> value, exists |-> exists]
                                /\ IF AttachLocalError(arg, exists) # <<>>
                                   THEN /\ Show(s, AttachLocalError(arg, exists))
                                        /\ UNCHANGED <<handler, calls>>
                                   ELSE /\ handler' = [Idle("attach") EXCEPT !.arg = arg]
                                        /\ Call("upload")
                                        /\ UNCHANGED message_list
                        /\ UNCHANGED <<running, listen_task, screen_stack, exited>>
                 [] cmd = CmdDf ->
                        /\ IF arg = <<>>
                           THEN /\ Show(s, UsageDf)
                                /\ UNCHANGED <<handler, calls>>
                           ELSE /\ handler' = [Idle("download") EXCEPT !.arg = arg]
                                /\ Call("download")
                                /\ UNCHANGED message_list
                        /\ last_input' = [value |-> value, exists |-> FALSE]
                        /\ UNCHANGED <<running, listen_task, screen_stack, exited>>
                 [] OTHER ->
                        /\ Show(s, UnknownCommand)
                        /\ last_input' = [value |-> value, exists |-> FALSE]
                        /\ UNCHANGED <<handler, running, listen_task, screen_stack,
                                       exited, calls>>
          ELSE /\ handler' = [Idle("send") EXCEPT !.arg = user_input]
               /\ Call("send")
               /\ last_input' = [value |-> value, exists |-> FALSE]
               /\ UNCHANGED <<message_list, running, listen_task, screen_stack, exited>>
    /\ UNCHANGED <<now, chats, conversation, seen_ids, last_poll_timestamp,
                   selection, world, failures, history>>

\* attach_file_cmd returns (keybase chat upload)
AttachReturn(rc) ==
    /\ ActiveScreen > 0
    /\ handler.pc = "attach"
    /\ Show(ActiveScreen, IF rc # 0 THEN AttachError ELSE AttachOk)
    /\ handler' = Idle("idle")
    /\ Returned("upload", rc)
    /\ UNCHANGED <<now, exited, screen_stack, chats, conversation, running, seen_ids,
                   last_poll_timestamp, listen_task, inputs, selection, world,
                   calls, last_input, history>>

\* download_file_cmd returns (keybase chat download)
DownloadReturn(rc) ==
    /\ ActiveScreen > 0
    /\ handler.pc = "download"
    /\ Show(ActiveScreen, IF rc # 0 THEN DownloadError
                          ELSE Downloaded(OsPathJoin(download_path, handler.arg)))
    /\ handler' = Idle("idle")
    /\ Returned("download", rc)
    /\ UNCHANGED <<now, exited, screen_stack, chats, conversation, running, seen_ids,
                   last_poll_timestamp, listen_task, inputs, selection, world,
                   calls, last_input, history>>

\* send_message_cmd returns rc (the return code is not looked at);
\* poll_iteration starts its read
SendReturn(rc) ==
    /\ ActiveScreen > 0
    /\ handler.pc = "send"
    /\ handler' = PollStart(ActiveScreen, handler)
    /\ Returned("send", rc)
    /\ Call("oob")
    /\ UNCHANGED <<now, exited, screen_stack, chats, conversation, running, seen_ids,
                   last_poll_timestamp, message_list, listen_task, inputs,
                   selection, world, last_input, history>>

\* the read of the handler's poll_iteration returns
OobReturn(rc, out) ==
    /\ ActiveScreen > 0
    /\ handler.pc = "fetch"
    /\ LET s == ActiveScreen
           r == PollReturn(s, handler, rc, out)
       IN /\ now' = now + 1
          /\ last_poll_timestamp' = [last_poll_timestamp EXCEPT ![s] = r.ts]
          /\ seen_ids' = [seen_ids EXCEPT ![s] = r.seen]
          /\ message_list' = [message_list EXCEPT ![s] = r.list]
          /\ handler' = IF r.p.pc = "return" THEN Idle("idle") ELSE r.p
          /\ PollHistory(s, handler, rc, out)
    /\ UNCHANGED <<exited, screen_stack, chats, conversation, running, listen_task, inputs,
                   selection, world, log>>

\* an append of the handler's poll_iteration has been awaited
OobMerge ==
    /\ ActiveScreen > 0
    /\ handler.pc = "merge"
    /\ LET s == ActiveScreen
           r == PollLoop(s, handler)
       IN /\ seen_ids' = [seen_ids EXCEPT ![s] = r.seen]
          /\ message_list' = [message_list EXCEPT ![s] = r.list]
          /\ handler' = IF r.p.pc = "return" THEN Idle("idle") ELSE r.p
    /\ UNCHANGED <<now, exited, screen_stack, chats, conversation, running,
                   last_poll_timestamp, listen_task, inputs, selection, world, log, history>>

\* ---- the program ----

\* the lines the backend prints when only one identifier is needed
OneId == {L1}

\* the inputs that are messages, not commands
PlainInputs == {v \in UserInputs : ~StartsWithSlash(Strip(v))}

\* the environment events so far: screens opened, inputs submitted, polls
\* returned and lines printed
Work == chats + inputs + now + printed

\* the whole program, the user typing the inputs of NavInputs
Next ==
    \/ \E rc \in ReturnCodes : \E out \in WhoamiOutputs : WhoamiReturn(rc, out)
    \/ \E rc \in ReturnCodes : ListReturn(rc, listing)
    \/ \E conv \in Convs : Work < NavBudget /\ Select(conv)
    \/ QuitList
    \/ \E rc \in ReturnCodes : \E out \in Outputs(OneId, printed + NavBudget - Work, rc) :
          MountRead(rc, out)
    \/ MountAppend
    \/ \E s \in Sessions : Work < NavBudget /\ ListenWake(s)
    \/ \E s \in Sessions : \E rc \in ReturnCodes :
          \E out \in Outputs(OneId, printed + NavBudget - Work - 1, rc) :
              Work < NavBudget /\ ListenReturn(s, rc, out)
    \/ \E s \in Sessions : ListenMerge(s)
    \/ Escape
    \/ \E value \in NavInputs : \E exists \in BOOLEAN :
          Work < NavBudget /\ Submit(value, exists)
    \/ \E rc \in ReturnCodes : AttachReturn(rc)
    \/ \E rc \in ReturnCodes : DownloadReturn(rc)
    \/ \E rc \in ReturnCodes : Work < NavBudget /\ SendReturn(rc)
    \/ \E rc \in ReturnCodes : \E out \in Outputs(OneId, printed + NavBudget - Work - 1, rc) :
          Work < NavBudget /\ OobReturn(rc, out)
    \/ OobMerge

Spec == Init /\ [][Next]_vars

\* one visit of the ChatScreen of conversation A in which the user sends
\* the message hi and the backend prints any lines of Lines
NextMerge ==
    \/ WhoamiReturn(0, <<"a", "l">>)
    \/ ListReturn(0, listing)
    \/ chats = 0 /\ Select("A")
    \/ \E rc \in ReturnCodes : \E out \in Outputs(Lines, MergeLines, rc) : MountRead(rc, out)
    \/ MountAppend
    \/ \E s \in Sessions : now + inputs < MergeEvents /\ ListenWake(s)
    \/ \E s \in Sessions : \E rc \in ReturnCodes : \E out \in Outputs(Lines, MergeLines, rc) :
          now + inputs < MergeEvents /\ ListenReturn(s, rc, out)
    \/ \E s \in Sessions : ListenMerge(s)
    \/ now + inputs < MergeEvents /\ Submit(<<"h", "i">>, FALSE)
    \/ now + inputs < MergeEvents /\ SendReturn(0)
    \/ \E rc \in ReturnCodes : \E out \in Outputs(Lines, MergeLines, rc) :
          now + inputs < MergeEvents /\ OobReturn(rc, out)
    \/ OobMerge

SpecMerge == Init /\ [][NextMerge]_vars

\* one visit of the ChatScreen of conversation A with more polls and fewer lines
NextCursor ==
    \/ WhoamiReturn(0, <<"a", "l">>)
    \/ ListReturn(0, listing)
    \/ chats = 0 /\ Select("A")
    \/ \E rc \in ReturnCodes : \E out \in Outputs(OneId, CursorLines, rc) : MountRead(rc, out)
    \/ MountAppend
    \/ \E s \in Sessions : ListenWake(s)
    \/ \E s \in Sessions : \E rc \in ReturnCodes : \E out \in Outputs(OneId, CursorLines, rc) :
          now < CursorPolls /\ ListenReturn(s, rc, out)
    \/ \E s \in Sessions : ListenMerge(s)
    \/ \E value \in PlainInputs : inputs < CursorInputs /\ Submit(value, FALSE)
    \/ SendReturn(0)
    \/ \E rc \in ReturnCodes : \E out \in Outputs(OneId, CursorLines, rc) :
          now < CursorPolls /\ OobReturn(rc, out)
    \/ OobMerge

SpecCursor == Init /\ [][NextCursor]_vars

\* the same visit when the event loop runs the listen task whenever it can
\* run: the sleep ends, and an awaited append returns
SpecLive ==
    /\ Init
    /\ [][NextCursor]_vars
    /\ \A s \in Sessions : WF_vars(ListenWake(s)) /\ WF_vars(ListenMerge(s))


\* one visit of the ChatScreen of conversation A in which the user types
\* messages and commands
NextCommands ==
    \/ WhoamiReturn(0, <<"a", "l">>)
    \/ ListReturn(0, listing)
    \/ chats = 0 /\ Select("A")
    \/ \E rc \in ReturnCodes : \E out \in Outputs(OneId, CursorLines, rc) : MountRead(rc, out)
    \/ MountAppend
    \/ \E s \in Sessions : now < CommandPolls /\ ListenWake(s)
    \/ \E s \in Sessions : \E rc \in ReturnCodes : \E out \in Outputs(OneId, CursorLines, rc) :
          now < CommandPolls /\ ListenReturn(s, rc, out)
    \/ \E s \in Sessions : ListenMerge(s)
    \/ Escape
    \/ \E value \in UserInputs : \E exists \in BOOLEAN :
          inputs < CommandInputs /\ Submit(value, exists)
    \/ \E rc \in ReturnCodes : AttachReturn(rc)
    \/ \E rc \in ReturnCodes : DownloadReturn(rc)
    \/ \E rc \in ReturnCodes : SendReturn(rc)
    \/ \E rc \in ReturnCodes : \E out \in Outputs(OneId, CursorLines, rc) :
          now < CommandPolls /\ OobReturn(rc, out)
    \/ OobMerge

SpecCommands == Init /\ [][NextCommands]_vars

\* ---- the backend of keybase chat read ----

RECURSIVE InOrderOfTime(_)
\* the lines of a set of recorded messages, oldest first
InOrderOfTime(msgs) ==
    IF msgs = {} THEN <<>>
    ELSE LET first == CHOOSE m \in msgs : \A o \in msgs : m.time <= o.time
         IN <<first.line>> \o InOrderOfTime(msgs \ {first})

\* what keybase chat read --since prints: the messages recorded after since
ReadSince(since) == InOrderOfTime({m \in backend : m.time > since})

\* what keybase chat read --at-least N prints, for an N that covers them all
ReadAtLeast == InOrderOfTime(backend)

\* a message reaches the backend, which records it with the time it has then
BackendRecord(line) ==
    /\ ~exited
    /\ \A m \in backend : m.line # line
    /\ now' = now + 1
    /\ backend' = backend \cup {[line |-> line, time |-> now + 1]}
    /\ UNCHANGED <<exited, screen_stack, chats, conversation, running, seen_ids,
                   last_poll_timestamp, message_list, listen_task, handler, inputs,
                   selection, listing, answer, log, history>>

\* the backend answers the read of the listen task; communicate() has not
\* returned yet
BackendAnswer(s) ==
    /\ ~exited
    /\ listen_task[s].pc = "fetch"
    /\ answer[s].started # listen_task[s].started
    /\ answer' = [answer EXCEPT ![s] = Answer(listen_task[s].started,
                                              ReadSince(listen_task[s].since))]
    /\ UNCHANGED <<now, exited, screen_stack, chats, conversation, running, seen_ids,
                   last_poll_timestamp, message_list, listen_task, handler, inputs,
                   selection, listing, backend, log, history>>

\* the lines the backend records
Recorded == {L1, L2}

\* one visit of the ChatScreen of conversation A in which the reads print
\* what the backend has recorded, every read succeeds and the user types
\* nothing
NextBackend ==
    \/ WhoamiReturn(0, <<"a", "l">>)
    \/ ListReturn(0, listing)
    \/ chats = 0 /\ Select("A")
    \/ \E line \in Recorded :
          chats > 0 /\ Cardinality(backend) < BackendMsgs /\ BackendRecord(line)
    \/ MountRead(0, ReadAtLeast)
    \/ MountAppend
    \/ \E s \in Sessions : delivered[s] < BackendPolls /\ ListenWake(s)
    \/ \E s \in Sessions : BackendAnswer(s)
    \/ \E s \in Sessions :
          answer[s].started = listen_task[s].started /\ ListenReturn(s, 0, answer[s].out)
    \/ \E s \in Sessions : ListenMerge(s)

SpecBackend == Init /\ [][NextBackend]_vars

\* the start of the program up to the selection screen, for the
\* configurations and the lists of conversations below
ConvUniverse == {ConvA, ConvB, ConvC, ConvD}

\* the lists of up to MaxConvs conversations, none of them twice
ConvLists ==
    {q \in SeqsUpTo(ConvUniverse, MaxConvs) : \A i, j \in 1..Len(q) : i # j => q[i] # q[j]}

\* hide_names of config.json
HideNames == {<<>>, << <<"B", "o", "t">> >>, << <<"x">>, <<"C", "H", "A", "T">> >>}

Configs == [max_recent : 0..MaxRecent, hide_names : HideNames]

InitList == \E cfg \in Configs : \E convs \in ConvLists : InitWith(cfg, convs)

NextList ==
    \/ \E rc \in ReturnCodes : \E out \in WhoamiOutputs : WhoamiReturn(rc, out)
    \/ ListReturn(0, listing)

SpecList == InitList /\ [][NextList]_vars

\* ---- properties ----

Created(s) == conversation[s] # "none"
Items(s) == 1..Len(message_list[s])
IdOfItem(s, i) == MsgId(message_list[s][i].line)
\* the item was read from the backend (initial load or poll)
Fetched(s, i) == message_list[s][i].batch >= 0
InPoll(p) == p.pc \in {"fetch", "merge"}
Loading(s) == ActiveScreen = s /\ handler.pc \in {"mount_read", "mount_append"}
\* no coroutine of the ChatScreen is in the middle of a loop over lines
Quiet(s) ==
    /\ listen_task[s].pc # "merge"
    /\ ActiveScreen = s => handler.pc \notin {"mount_append", "merge"}

\* C1: in a chat session no message identifier occurs in more than one
\* displayed line, the lines of the initial load included
C1_NoIdTwice ==
    \A s \in Sessions : \A i, j \in Items(s) :
        (i # j /\ IdOfItem(s, i) # NoId) => IdOfItem(s, i) # IdOfItem(s, j)

\* C2: every fetched line without identifier is displayed each time it is
\* fetched: once the loops over the fetched lines are through, the displayed
\* fetched lines without identifier are as many as were fetched
C2_IdlessAlwaysAppended ==
    \A s \in Sessions :
        (ActiveScreen = s /\ Quiet(s)) =>
            Cardinality({i \in Items(s) : Fetched(s, i) /\ IdOfItem(s, i) = NoId})
                = idless_fetched[s]

\* C3: display order is arrival order: a displayed line of a batch that
\* arrived earlier stands before every displayed line of a batch that
\* arrived later
C3_ArrivalOrder ==
    \A s \in Sessions : \A i, j \in Items(s) :
        (i < j /\ Fetched(s, i) /\ Fetched(s, j)) =>
            message_list[s][i].batch <= message_list[s][j].batch

\* C4: at most one poll iteration of a chat session is in progress at a time
C4_OnePollAtATime ==
    \A s \in Sessions :
        ~(InPoll(listen_task[s]) /\ ActiveScreen = s /\ InPoll(handler))

\* C5: no listen_messages task is running for a ChatScreen that is not the
\* active screen
C5_SchedulerStopped ==
    \A s \in Sessions :
        (~exited /\ listen_task[s].pc \in {"sleep", "fetch", "merge"}) => ActiveScreen = s

\* C6: once a ChatScreen has been left, its message list, its seen_ids and
\* its last_poll_timestamp do not change any more
C6_NoMutationAfterTeardown ==
    [][\A s \in Sessions :
          (Created(s) /\ ~Mounted(s)) =>
              /\ message_list'[s] = message_list[s]
              /\ seen_ids'[s] = seen_ids[s]
              /\ last_poll_timestamp'[s] = last_poll_timestamp[s]]_vars

\* C7: a chat session has a Seen-ID Set of its own: every identifier in the
\* set of the active ChatScreen is the identifier of a line displayed in this
\* very session, so an identifier shown in an earlier session suppresses nothing
C7_FreshSeenIds ==
    \A s \in Sessions :
        ActiveScreen = s => seen_ids[s] \subseteq {IdOfItem(s, i) : i \in Items(s)} \ {NoId}

\* a second session displays a line whose identifier an earlier session displayed
C7_Witness ==
    \E s1, s2 \in Sessions :
        /\ s1 < s2 /\ ActiveScreen = s2
        /\ \E i \in Items(s1) : \E j \in Items(s2) :
              IdOfItem(s1, i) # NoId /\ IdOfItem(s1, i) = IdOfItem(s2, j)

\* C8: while the initial load of a chat session is in progress no poll of
\* the session has started or returned, and once the listen task exists the
\* identifiers of the loaded lines are in seen_ids
C8_LoadBeforePolls ==
    \A s \in Sessions :
        /\ Loading(s) =>
              /\ listen_task[s].pc = "none"
              /\ delivered[s] = 0 /\ failed_since[s] = {}
        /\ listen_task[s].pc # "none" =>
              \A i \in Items(s) :
                  message_list[s][i].batch = 0 =>
                      (IdOfItem(s, i) = NoId \/ IdOfItem(s, i) \in seen_ids[s])

\* a poll is reading after an initial load that displayed an identified line
C8_Witness ==
    \E s \in Sessions :
        /\ \E i \in Items(s) : message_list[s][i].batch = 0 /\ IdOfItem(s, i) # NoId
        /\ \/ listen_task[s].pc = "fetch"
           \/ ActiveScreen = s /\ handler.pc = "fetch"

\* C9: the Poll Cursor of a chat session never decreases
C9_CursorMonotonic ==
    [][\A s \in Sessions :
          Created(s) => last_poll_timestamp'[s] >= last_poll_timestamp[s]]_vars

\* a poll is in flight that was started before the cursor last advanced, after
\* a failed poll
C9_Witness ==
    \E s \in Sessions :
        /\ failed_since[s] # {}
        /\ \/ listen_task[s].pc = "fetch" /\ listen_task[s].since < last_poll_timestamp[s]
           \/ ActiveScreen = s /\ handler.pc = "fetch" /\ handler.since < last_poll_timestamp[s]

\* C10: every poll that returns, failed or not, sets the Poll Cursor to the
\* current time, and the cursor is then past the --since value of every
\* failed poll, so the next read does not use that value again
C10_CursorAdvancesOnFailure ==
    /\ [][\A s \in Sessions :
             (delivered'[s] # delivered[s] \/ failed_since'[s] # failed_since[s]) =>
                 last_poll_timestamp'[s] = now']_vars
    /\ [](\A s \in Sessions : \A f \in failed_since[s] : last_poll_timestamp[s] > f)

\* a read is in flight that was started after a poll failed
C10_Witness ==
    \E s \in Sessions : \E f \in failed_since[s] :
        \/ listen_task[s].pc = "fetch" /\ listen_task[s].since > f
        \/ ActiveScreen = s /\ handler.pc = "fetch" /\ handler.since > f

\* C11: after a poll of an open chat view has failed, whatever the number of
\* failures so far, the listen task starts a read again (or the view is left)
C11_FailedPollKeepsScheduling ==
    \A s \in Sessions :
        (ActiveScreen = s /\ failed_since[s] # {} /\ listen_task[s].pc # "fetch")
            ~> (listen_task[s].pc = "fetch" \/ ActiveScreen # s)

\* the listen task is reading again after two polls have failed
C11_Witness ==
    \E s \in Sessions :
        /\ ActiveScreen = s
        /\ Cardinality(failed_since[s]) >= 2
        /\ listen_task[s].pc = "fetch"
        /\ \A f \in failed_since[s] : listen_task[s].started > f

\* C12: the identifier of every displayed line that has one is in seen_ids of
\* its ChatScreen, whether the line came from the initial load, from a poll
\* or from a command
C12_DisplayedIdsSeen ==
    \A s \in Sessions : \A i \in Items(s) :
        IdOfItem(s, i) # NoId => IdOfItem(s, i) \in seen_ids[s]

\* a chat view shows a loaded line with an identifier and an inline line of a
\* command
C12_Witness ==
    \E s \in Sessions :
        /\ \E i \in Items(s) : message_list[s][i].batch = 0 /\ IdOfItem(s, i) # NoId
        /\ \E i \in Items(s) : message_list[s][i].batch = -1
        /\ inputs > 0

\* the handler of an input awaits send_message_cmd
SendInFlight == ActiveScreen > 0 /\ handler.pc = "send"

Spaces(n) == [k \in 1..n |-> " "]

\* t is v without the spaces at its two ends
IsStripOf(t, v) ==
    /\ \E i, j \in 0..Len(v) : v = Spaces(i) \o t \o Spaces(j)
    /\ t # <<>> => (t[1] # " " /\ t[Len(t)] # " ")

StripOf(v) ==
    CHOOSE t \in {SubSeq(v, a, b) : a \in 1..(Len(v) + 1), b \in 0..Len(v)} : IsStripOf(t, v)

\* C13 as stated: an input that does not begin with / causes one send call
\* that carries the text as typed, and every send is followed at once, when
\* it has returned and not before, by one out-of-band poll
C13_SendsTextAsTyped ==
    /\ [](SendInFlight => handler.arg = last_input.value)
    /\ [](calls.send = calls.oob + (IF SendInFlight THEN 1 ELSE 0))
    /\ [][/\ (inputs' = inputs + 1 /\ ~StartsWithSlash(last_input'.value)) =>
                (calls'.send = calls.send + 1 /\ SendInFlight')
          /\ calls'.send # calls.send => inputs' = inputs + 1]_vars

\* C13 amended: an input whose text without the spaces at its ends does not
\* begin with / causes one send call that carries this stripped text, and
\* every send is followed at once, when it has returned and not before, by
\* one out-of-band poll
C13_SendsStrippedText ==
    /\ [](SendInFlight => handler.arg = StripOf(last_input.value))
    /\ [](calls.send = calls.oob + (IF SendInFlight THEN 1 ELSE 0))
    /\ [][/\ (inputs' = inputs + 1 /\ ~StartsWithSlash(StripOf(last_input'.value))) =>
                (calls'.send = calls.send + 1 /\ SendInFlight')
          /\ calls'.send # calls.send => inputs' = inputs + 1]_vars

\* the out-of-band poll of an input typed with spaces at its ends is reading,
\* after the send of its stripped text
C13_Witness ==
    /\ ActiveScreen > 0
    /\ handler.pc = "fetch"
    /\ last_input.value # StripOf(last_input.value)
    /\ calls.send = calls.oob
    /\ calls.send > 0

\* the ChatScreen opened last was left by /cc arg: the switching notice is
\* the last item of its list, and no ChatScreen is on the stack
CcDone(arg) ==
    /\ chats > 0
    /\ ~Mounted(chats)
    /\ message_list[chats] # <<>>
    /\ message_list[chats][Len(message_list[chats])] = Inline(Switching(arg))

\* arg names a conversation of the selection screen, by id or by display name
Resolves(arg) ==
    \E i \in 1..Len(conversations) :
        \/ <<conversations[i].id>> = arg
        \/ conversation_display_name(conversations[i], current_user) = arg

\* C14: after /cc other the machine does not come to rest on the
\* ConversationList when other resolves to a conversation (it enters
\* Chat(other) at once), and it is on the ConversationList when other does
\* not resolve
C14_CcReselects ==
    \A c \in Convs \cup {"Z"} :
        (~exited /\ CcDone(<<c>>)) =>
            IF Resolves(<<c>>) THEN handler.pc # "idle" ELSE ActiveScreen = 0

\* C15: the conversation list has been fetched once for every time the
\* ConversationList became the active screen: once at startup and once
\* after each ChatScreen that has been left
C15_ListRefreshed ==
    (ActiveScreen = 0 /\ handler.pc = "idle") => calls.list = chats + 1

\* get_current_user has returned without a user name
WhoamiFailed == handler.pc # "load" /\ (current_user = None \/ current_user = <<>>)

CmdOf(value) == Lower(FirstWord(Strip(value)))
ArgOf(value) == RestAfterWord(Strip(value))

\* the input is /af or /df without argument, or /af with a path that does
\* not exist
IsArgError(in) ==
    \/ CmdOf(in.value) \in {CmdAf, CmdDf} /\ ArgOf(in.value) = <<>>
    \/ CmdOf(in.value) = CmdAf /\ ArgOf(in.value) # <<>> /\ ~in.exists

ArgErrorText(in) ==
    IF ArgOf(in.value) # <<>> THEN NotExist(ArgOf(in.value))
    ELSE IF CmdOf(in.value) = CmdAf THEN UsageAf ELSE UsageDf

\* C17: the submission of a command with an argument error appends one
\* inline text (the usage, or that the file does not exist), issues no
\* backend call and awaits none, and leaves the screen stack, the listen
\* task, running, seen_ids and last_poll_timestamp as they are
C17_ArgErrorsStayLocal ==
    [][\A s \in Sessions :
          (ActiveScreen = s /\ inputs' = inputs + 1 /\ IsArgError(last_input')) =>
              /\ message_list'[s] = Append(message_list[s], Inline(ArgErrorText(last_input')))
              /\ calls' = calls
              /\ handler' = handler
              /\ screen_stack' = screen_stack /\ exited' = exited
              /\ listen_task' = listen_task /\ running' = running
              /\ seen_ids' = seen_ids
              /\ last_poll_timestamp' = last_poll_timestamp]_vars

\* /af with a path that does not exist has been answered in the chat view
\* and no upload has been called
C17_Witness ==
    \E s \in Sessions :
        /\ ActiveScreen = s
        /\ IsArgError(last_input) /\ ArgOf(last_input.value) # <<>>
        /\ message_list[s] # <<>>
        /\ message_list[s][Len(message_list[s])] = Inline(NotExist(ArgOf(last_input.value)))
        /\ calls.upload = 0

\* C18: when a send, upload or download call fails, an inline text that
\* contains the error detail is appended to the list of the chat view, and
\* the chat view stays the active screen
C18_BackendFailureShown ==
    [][\A k \in DOMAIN failures :
          failures'[k] = failures[k] + 1 =>
              /\ ActiveScreen' = ActiveScreen
              /\ \E s \in Sessions :
                    /\ ActiveScreen = s
                    /\ Len(message_list'[s]) = Len(message_list[s]) + 1
                    /\ SubSeq(message_list'[s], 1, Len(message_list[s])) = message_list[s]
                    /\ LET item == message_list'[s][Len(message_list'[s])]
                       IN item.batch = -1 /\ Contains(Stderr, item.line)]_vars

\* the display name contains one of hide_names, whatever the case of letters
HiddenName(conv) ==
    \E k \in 1..Len(config.hide_names) :
        Contains(Lower(config.hide_names[k]),
                 Lower(conversation_display_name(conv, current_user)))

\* the place of the conversation with this id in self.conversations
PlaceOf(id) == CHOOSE i \in 1..Len(conversations) : conversations[i].id = id

\* C19: the selection screen keeps the conversations of the backend sorted
\* by active_at, largest first, cut to the max_recent most recent ones when
\* max_recent > 0, and lists those of them, in this order, whose display
\* name contains none of hide_names, letters compared without case
C19_ListSortedTruncatedFiltered ==
    (ActiveScreen = 0 /\ handler.pc = "idle") =>
        LET n == Len(listing)
            k == config.max_recent
            m == Len(conversations)
            ids == [p \in 1..Len(list_view) |-> list_view[p].id]
        IN /\ m = IF k > 0 /\ k < n THEN k ELSE n
           /\ \A i \in 1..m : \E j \in 1..n : listing[j] = conversations[i]
           /\ \A i, j \in 1..m : i < j =>
                  /\ conversations[i] # conversations[j]
                  /\ conversations[i].active_at >= conversations[j].active_at
           /\ \A j \in 1..n :
                  (\A i \in 1..m : conversations[i] # listing[j]) =>
                      \A i \in 1..m : conversations[i].active_at >= listing[j].active_at
           /\ Len(ids) = Cardinality({i \in 1..m : ~HiddenName(conversations[i])})
           /\ \A p \in 1..Len(ids) :
                  /\ \E i \in 1..m : conversations[i].id = ids[p]
                  /\ ~HiddenName(conversations[PlaceOf(ids[p])])
                  /\ list_view[p].name =
                         conversation_display_name(conversations[PlaceOf(ids[p])], current_user)
           /\ \A p, q \in 1..Len(ids) : p < q => PlaceOf(ids[p]) < PlaceOf(ids[q])
           /\ (listing = <<ConvA, ConvB, ConvC>> /\ k = 2 /\ config.hide_names = <<>>)
                  => ids = <<"C", "A">>
           /\ (listing = <<ConvB, ConvC>> /\ k = 0
                 /\ config.hide_names = << <<"B", "o", "t">> >>) => ids = <<"C">>

\* max_recent = 2 over active_at 5, 1, 9 lists the conversations of 9 and 5
C19_Witness ==
    /\ ActiveScreen = 0 /\ handler.pc = "idle"
    /\ listing = <<ConvA, ConvB, ConvC>>
    /\ config.max_recent = 2
    /\ [p \in 1..Len(list_view) |-> list_view[p].id] = <<"C", "A">>

\* the line of a recorded message is an item of the message list
Displayed(s, m) == \E i \in Items(s) : message_list[s][i].line = m.line

\* C20: no message recorded in an open chat session is skipped: when
\* last_poll_timestamp has passed the time of a message and the lines read
\* so far have been looked at, the message is displayed.  (The cursor does
\* not go back and a read prints only what is later than its cursor, so a
\* message the cursor has passed is not read again.)
C20_NoMessageSkipped ==
    \A s \in Sessions : \A m \in backend :
        (ActiveScreen = s /\ Quiet(s) /\ m.time <= last_poll_timestamp[s]) =>
            Displayed(s, m)

====
